---- MODULE Spec2Model ----
(***************************************************************************)
(* Model of velruse's OpenID consumer (velruse/providers/openidconsumer.py)*)
(*                                                                         *)
(* Two parts:                                                              *)
(*   - the attribute normalizer (AttribAccess.get, extract_openid_data),   *)
(*     a pure function, exercised by SpecExtract;                          *)
(*   - the responder (OpenIDResponder.login / .process) over the session   *)
(*     and the keyed storage, exercised by Spec (requests interleave at    *)
(*     their accesses to the session and the storage) and by SpecSeq (one  *)
(*     request at a time).                                                 *)
(*                                                                         *)
(* Python strings are modelled as sequences of tokens: a token is "@",     *)
(* " " or a run of other characters, so that `x in s`, re.match, join and  *)
(* strip are computed rather than assumed.  Python semantics are those of  *)
(* Python 2, the language of the module (dict.items() returns a list).     *)
(***************************************************************************)
EXTENDS Integers, Sequences, FiniteSets, TLC

\* ------------------------------------------------------------------------
\* Python values
\* ------------------------------------------------------------------------

\* None, and a string value holding the token sequence s
None == [none |-> TRUE, s |-> <<>>]

Str(s) == [none |-> FALSE, s |-> s]

\* Python truthiness of None / a string: `if v:`
Truthy(v) == (~v.none) /\ v.s # <<>>

\* `sub in s` for a string s, at token granularity
Contains(sub, s) == \E i \in 1..Len(s) : s[i] = sub

\* s.strip(): drop leading and trailing whitespace tokens
RECURSIVE LStrip(_)
LStrip(s) == IF s # <<>> /\ Head(s) = " " THEN LStrip(Tail(s)) ELSE s

RECURSIVE RStrip(_)
RStrip(s) == IF s # <<>> /\ s[Len(s)] = " " THEN RStrip(SubSeq(s, 1, Len(s) - 1)) ELSE s

Strip(s) == RStrip(LStrip(s))

\* ' '.join(vals) for a list of string values
RECURSIVE Join(_)
Join(vals) ==
    IF vals = <<>> THEN <<>>
    ELSE IF Len(vals) = 1 THEN vals[1].s
    ELSE vals[1].s \o <<" ">> \o Join(Tail(vals))

\* index of the first "@" of s, 0 when there is none
RECURSIVE FirstAt(_, _)
FirstAt(s, i) ==
    IF i > Len(s) THEN 0
    ELSE IF s[i] = "@" THEN i
    ELSE FirstAt(s, i + 1)

\* ------------------------------------------------------------------------
\* Attribute tables
\* ------------------------------------------------------------------------

ax_attributes ==
    [nickname    |-> "http://axschema.org/namePerson/friendly",
     email       |-> "http://axschema.org/contact/email",
     full_name   |-> "http://axschema.org/namePerson",
     birthday    |-> "http://axschema.org/birthDate",
     gender      |-> "http://axschema.org/person/gender",
     postal_code |-> "http://axschema.org/contact/postalCode/home",
     country     |-> "http://axschema.org/contact/country/home",
     timezone    |-> "http://axschema.org/pref/timezone",
     language    |-> "http://axschema.org/pref/language",
     name_prefix |-> "http://axschema.org/namePerson/prefix",
     first_name  |-> "http://axschema.org/namePerson/first",
     last_name   |-> "http://axschema.org/namePerson/last",
     middle_name |-> "http://axschema.org/namePerson/middle",
     name_suffix |-> "http://axschema.org/namePerson/suffix",
     web         |-> "http://axschema.org/contact/web/default"]

trans_dict ==
    [full_name |-> "fullname", birthday |-> "dob", postal_code |-> "postcode"]

\* sreg.data_fields of the OpenID library: the fields login asks for
sreg_data_fields ==
    {"nickname", "email", "fullname", "dob", "gender", "postcode",
     "country", "language", "timezone"}

\* the name parts in alphabetical order
name_keys_Alphabetical ==
    <<"first_name", "last_name", "middle_name", "name_prefix", "name_suffix">>

name_keys == <<"name_prefix", "first_name", "middle_name", "last_name", "name_suffix">>

pcard_map ==
    [first_name  |-> "givenName", middle_name |-> "middleName",
     last_name   |-> "familyName", name_prefix |-> "honorificPrefix",
     name_suffix |-> "honorificSuffix"]

\* ------------------------------------------------------------------------
\* AttribAccess
\* ------------------------------------------------------------------------

\* ax_resp.getSingle(uri): the value, None when the attribute is absent
getSingle(ax_resp, uri) == IF uri \in DOMAIN ax_resp THEN ax_resp[uri] ELSE None

\* sreg_resp.get(key)
sreg_get(sreg_resp, key) == IF key \in DOMAIN sreg_resp THEN sreg_resp[key] ELSE None

\* the ax_only flag is ignored
AttribAccess_get_IgnoreAxOnly(sreg_resp, ax_resp, key, ax_only) ==
    LET v == getSingle(ax_resp, ax_attributes[key])
        k2 == IF key \in DOMAIN trans_dict THEN trans_dict[key] ELSE key
    IN  IF Truthy(v) THEN v
        ELSE IF k2 \notin sreg_data_fields THEN None
        ELSE sreg_get(sreg_resp, k2)

\* the simple-registration value is preferred to the exchange value
AttribAccess_get_SregFirst(sreg_resp, ax_resp, key, ax_only) ==
    LET v == getSingle(ax_resp, ax_attributes[key])
        k2 == IF key \in DOMAIN trans_dict THEN trans_dict[key] ELSE key
    IN  IF (~ax_only) /\ k2 \in sreg_data_fields /\ k2 \in DOMAIN sreg_resp
        THEN sreg_get(sreg_resp, k2)
        ELSE IF Truthy(v) THEN v
        ELSE None

AttribAccess_get(sreg_resp, ax_resp, key, ax_only) ==
    LET v == getSingle(ax_resp, ax_attributes[key])
        k2 == IF key \in DOMAIN trans_dict THEN trans_dict[key] ELSE key
    IN  IF Truthy(v) THEN v
        ELSE IF ax_only THEN None
        ELSE IF k2 \notin sreg_data_fields THEN None
        ELSE sreg_get(sreg_resp, k2)

\* ------------------------------------------------------------------------
\* extract_openid_data
\* ------------------------------------------------------------------------

\* the three-way branch on the identifier
providerName(identifier) ==
    IF Contains("google.com", identifier) THEN "Google"
    ELSE IF Contains("yahoo.com", identifier) THEN "Yahoo"
    ELSE "OpenID"

\* re.match('(^.*?)@', email).groups()[0] raises when email is None
\* (TypeError) or has no "@" (match is None: AttributeError)
EmailMatchRaises(email) == email.none \/ FirstAt(email.s, 1) = 0

EmailLocalPart(email) == Str(SubSeq(email.s, 1, FirstAt(email.s, 1) - 1))

\* the name parts that are present, in the order of name_keys
RECURSIVE NameParts(_, _, _)
NameParts(sreg_resp, ax_resp, i) ==
    IF i > Len(name_keys) THEN <<>>
    ELSE LET val == AttribAccess_get(sreg_resp, ax_resp, name_keys[i], FALSE)
         IN  (IF Truthy(val) THEN <<[part |-> name_keys[i], val |-> val]>> ELSE <<>>)
             \o NameParts(sreg_resp, ax_resp, i + 1)

\* truthiness of the value held under key k of the profile: the name is a
\* dict, urls a list, every other value None or a string
FieldTruthy(k, v) ==
    IF k = "name" THEN DOMAIN v # {}
    ELSE IF k = "urls" THEN v # <<>>
    ELSE Truthy(v)

\* the final loop: delete every key whose value is empty
StripEmpty(ud) ==
    LET keep == {k \in DOMAIN ud : FieldTruthy(k, ud[k])}
    IN  [k \in keep |-> ud[k]]

\* the profile before the final loop
BuildProfile(identifier, sreg_resp, ax_resp) ==
    LET pn    == providerName(identifier)
        email == AttribAccess_get(sreg_resp, ax_resp, "email", FALSE)
        preferredUsername ==
            IF pn = "Google" THEN EmailLocalPart(email)
            ELSE AttribAccess_get(sreg_resp, ax_resp, "nickname", FALSE)
        parts == NameParts(sreg_resp, ax_resp, 1)
        full_name_vals == [i \in 1..Len(parts) |-> parts[i].val]
        joined == Str(Strip(Join(full_name_vals)))
        full_name ==
            IF Truthy(joined) THEN joined
            ELSE AttribAccess_get(sreg_resp, ax_resp, "full_name", FALSE)
        name ==
            [k \in {pcard_map[parts[i].part] : i \in 1..Len(parts)} \cup {"formatted"} |->
                IF k = "formatted" THEN full_name
                ELSE LET i == CHOOSE j \in 1..Len(parts) : pcard_map[parts[j].part] = k
                     IN  parts[i].val]
        urls == AttribAccess_get(sreg_resp, ax_resp, "web", FALSE)
        keys ==
            {"identifier", "providerName", "preferredUsername", "name",
             "displayName", "gender", "birthday"}
            \cup (IF pn \in {"Google", "Yahoo"} THEN {"verifiedEmail"} ELSE {})
            \cup (IF Truthy(urls) THEN {"urls"} ELSE {})
    IN  [k \in keys |->
            CASE k = "identifier"        -> Str(identifier)
              [] k = "providerName"      -> Str(<<pn>>)
              [] k = "preferredUsername" -> preferredUsername
              [] k = "verifiedEmail"     -> AttribAccess_get(sreg_resp, ax_resp, "email", TRUE)
              [] k = "name"              -> name
              [] k = "displayName"       ->
                    IF Truthy(full_name) THEN full_name ELSE preferredUsername
              [] k = "urls"              -> <<urls>>
              [] k = "gender"            -> AttribAccess_get(sreg_resp, ax_resp, "gender", FALSE)
              [] k = "birthday"          -> AttribAccess_get(sreg_resp, ax_resp, "birthday", FALSE)]

\* extract_openid_data raises in the Google branch when there is no email
\* to match, or no "@" in it
ExtractRaises(identifier, sreg_resp, ax_resp) ==
    /\ providerName(identifier) = "Google"
    /\ EmailMatchRaises(AttribAccess_get(sreg_resp, ax_resp, "email", FALSE))

\* the outcome of a call: an exception, or the returned profile
extract_openid_data(identifier, sreg_resp, ax_resp) ==
    IF ExtractRaises(identifier, sreg_resp, ax_resp)
    THEN [raised |-> TRUE, ud |-> <<>>]
    ELSE [raised |-> FALSE, ud |-> StripEmpty(BuildProfile(identifier, sreg_resp, ax_resp))]

\* ------------------------------------------------------------------------
\* Bounds and input domains
\* ------------------------------------------------------------------------

\* number of requests (login or process calls) a behaviour contains
MaxReqs == 3

\* number of browser sessions
NumSessions == 2

\* most attributes present in an attribute-exchange response
MaxAx == 2

\* most fields present in a simple-registration response
MaxSreg == 2

Reqs == 1..MaxReqs

Sessions == 1..NumSessions

alice == Str(<<"alice">>)

alice_email == Str(<<"alice", "@", "example.com">>)

PlainId == <<"https://", "example-provider", "/alice">>

GoogleId == <<"https://", "www.", "google.com", "/accounts/o8/id">>

YahooId == <<"https://", "me.", "yahoo.com", "/alice">>

Identifiers == {PlainId, GoogleId, YahooId, <<"https://", "yahoo.com", ".", "google.com">>}

\* logical attributes extract_openid_data looks up
AxInputKeys ==
    {"email", "nickname", "name_prefix", "first_name", "middle_name",
     "last_name", "name_suffix", "full_name", "web", "gender", "birthday"}

SregInputKeys == {"email", "nickname", "fullname", "gender", "dob"}

\* an email: well formed, without "@", without local part, empty
EmailValues == {alice_email, alice, Str(<<"@", "example.com">>), Str(<<>>)}

\* the emails simple registration gives
SregEmailValues == {alice_email, alice}

\* the name a response gives for each name part
NameToken ==
    [name_prefix |-> "dr", first_name |-> "alice", middle_name |-> "m",
     last_name |-> "smith", name_suffix |-> "jr"]

\* a name part is its name, or whitespace only
NamePartValues == {Str(<<NameToken[k]>>) : k \in DOMAIN NameToken} \cup {Str(<<" ">>)}

OtherValues == {alice, Str(<<>>)}

\* the attributes a response may give with an empty value
MaybeEmptyKeys == {"nickname", "gender", "birthday", "dob"}

\* the name parts a response may give as whitespace
MaybeBlankParts == {"name_prefix", "last_name"}

AxValues(uri) ==
    IF uri = ax_attributes["email"] THEN EmailValues
    ELSE IF \E k \in DOMAIN NameToken : uri = ax_attributes[k]
    THEN LET k == CHOOSE k \in DOMAIN NameToken : uri = ax_attributes[k]
         IN  {Str(<<NameToken[k]>>)} \cup (IF k \in MaybeBlankParts THEN {Str(<<" ">>)} ELSE {})
    ELSE IF \E k \in MaybeEmptyKeys \cap DOMAIN ax_attributes : uri = ax_attributes[k]
    THEN OtherValues
    ELSE {alice}

SregValues(key) ==
    IF key = "email" THEN SregEmailValues
    ELSE IF key \in MaybeEmptyKeys THEN OtherValues
    ELSE {alice}

\* attribute-exchange responses: at most MaxAx attributes, keyed by URI
AxResponses ==
    UNION { {f \in [D -> EmailValues \cup NamePartValues \cup OtherValues] :
                \A u \in D : f[u] \in AxValues(u)} :
            D \in {D \in SUBSET {ax_attributes[k] : k \in AxInputKeys} : Cardinality(D) <= MaxAx} }

\* simple-registration responses: at most MaxSreg fields
SregResponses ==
    UNION { {f \in [D -> EmailValues \cup OtherValues] :
                \A k \in D : f[k] \in SregValues(k)} :
            D \in {D \in SUBSET SregInputKeys : Cardinality(D) <= MaxSreg} }

NoResponse == [k \in {} |-> None]

VARIABLES
    session,    \* session id -> the session's 'end_point' (None: key absent)
    storage,    \* the keyed store: key -> record, for the keys present
    req,        \* request -> handler, position, local variables, response
    xin,        \* arguments of the extract_openid_data call under study
    xout        \* its outcome

vars == <<session, storage, req, xin, xout>>

machineVars == <<session, storage, req>>

\* ------------------------------------------------------------------------
\* Collaborators: keyed storage, token generation, regex, responses
\* ------------------------------------------------------------------------

\* every session stores under one and the same key
SidKey_Shared(s) == <<"sid", "shared">>

\* storage keys: a session id, or a generated token
SidKey(s) == <<"sid", s>>

TokKey(t) == <<"tok", t>>

\* the expires argument of store: a number of seconds, or no expiry
Seconds(n) == [never |-> FALSE, secs |-> n]

Never == [never |-> TRUE, secs |-> 0]

\* storage.store(key, value, expires=...): the record keeps its expiry
Store(st, k, v, expires) ==
    [x \in DOMAIN st \cup {k} |-> IF x = k THEN [value |-> v, expires |-> expires] ELSE st[x]]

\* storage.retrieve(key): the value, an empty value when the key is absent
Retrieve(st, k) == IF k \in DOMAIN st THEN st[k].value ELSE <<>>

\* storage.delete(key)
Delete(st, k) == [x \in DOMAIN st \ {k} |-> st[x]]

\* utils.generate_token(): a token no other call returns.  A request
\* generates at most one token, which is named after the request.
generate_token(r) == r

\* re.match(regex, s) for a regex of literal characters: s starts with it
ReMatch(regex, s) == Len(s) >= Len(regex) /\ SubSeq(s, 1, Len(regex)) = regex

\* the configured 'Endpoint Regex'
endpoint_regex == <<"https://", "app.example">>

\* the response of a handler: what was rendered, and for an error redirect
\* its code and the branch that issued it
Resp(kind, cause, code, target, token) ==
    [kind |-> kind, cause |-> cause, code |-> code, target |-> target, token |-> token]

NoResp == Resp("none", "-", -1, None, 0)

\* the expires arguments of the three store calls
LoginRedirectExpires == 300

LoginFormExpires == 300

ResultExpires == 300

\* error codes passed to _error_redirect
ValidationErrorCode == 0

DiscoveryErrorCode == 1

NoAttemptErrorCode == 1

\* the handshake failure reported with the code of a discovery failure
HandshakeErrorCode_AsDiscovery == DiscoveryErrorCode

HandshakeErrorCode == 2

UnrecognizedErrorCode == 1

\* info.extensionResponse(oauth namespace, False): the arguments of the
\* OAuth extension, a dict that is empty when the response carries none
NoOAuth == [k \in {} |-> None]

OAuthRequestToken == [k \in {"request_token"} |-> Str(<<"request_token">>)]

OAuthScopeOnly == [k \in {"scope"} |-> Str(<<"scope">>)]

\* the response of a successful handshake, as far as process reads it; no
\* such response yet
NoInfo ==
    [status |-> "none", identity_url |-> <<>>, canonicalID |-> None,
     sreg_resp |-> NoResponse, ax_resp |-> NoResponse, oauth |-> NoOAuth]

IdleReq ==
    [op |-> "idle", pc |-> "idle", sess |-> 0, end_point |-> None,
     openid_session |-> <<>>, info |-> NoInfo,
     access_token |-> <<>>, result_data |-> <<>>, token |-> 0, resp |-> NoResp]

\* RouteResponder._error_redirect(error_code, end_point): the failure
\* envelope is stored under a fresh token, and a form carrying the token is
\* rendered towards end_point
error_redirect(r, base, code, cause, end_point) ==
    LET token == generate_token(r) IN
    /\ storage' = Store(storage, TokKey(token), [status |-> "failed", code |-> code],
                        Seconds(ResultExpires))
    /\ req' = [req EXCEPT ![r] = [base EXCEPT !.pc = "done",
                    !.resp = Resp("error_redirect", cause, code, end_point, token)]]

\* an exception leaves the handler
raise(r, base, what) ==
    req' = [req EXCEPT ![r] = [base EXCEPT !.pc = "done",
                !.resp = Resp("exception", what, -1, None, 0)]]

\* _get_access_token(request_token): the default hook
get_access_token(request_token) == None

\* _lookup_identifier(req, identifier): the default hook
lookup_identifier(identifier) == identifier

\* ------------------------------------------------------------------------
\* Inputs of the handlers
\* ------------------------------------------------------------------------

AppCb == Str(<<"https://", "app.example", "/cb">>)

AppCb2 == Str(<<"https://", "app.example", "/cb2">>)

EvilCb == Str(<<"https://", "evil.example", "/cb">>)

Post(end_point, openid_identifier) ==
    [end_point |-> end_point, openid_identifier |-> openid_identifier]

\* the form of a login request: POST['end_point'] (None stands for a
\* request without that field) and POST.get('openid_identifier')
Posts ==
    {Post(None, Str(PlainId)), Post(AppCb, None), Post(EvilCb, Str(PlainId)),
     Post(AppCb, Str(PlainId)), Post(AppCb2, Str(PlainId))}

\* oidconsumer.begin(): raises DiscoveryFailure, returns None, or returns
\* an auth request
DiscoveryOutcomes == {"DiscoveryFailure", "None", "authrequest"}

CanonicalId == <<"=!", "91F2.8153.F600.AE24">>

SregAlice == [k \in {"email", "nickname"} |-> IF k = "email" THEN alice_email ELSE alice]

AxAlice ==
    [u \in {ax_attributes["email"], ax_attributes["first_name"]} |->
        IF u = ax_attributes["email"] THEN alice_email ELSE alice]

\* a successful handshake: the identity, the canonical id, the two attribute
\* responses and the arguments of the OAuth extension
Success(identity_url, canonicalID, sreg_resp, ax_resp, oauth) ==
    [status |-> "success", identity_url |-> identity_url, canonicalID |-> canonicalID,
     sreg_resp |-> sreg_resp, ax_resp |-> ax_resp, oauth |-> oauth]

\* oidconsumer.complete(): the status, and what a success carries.  The
\* endpoint of a success has a canonical id, an empty one, or none
Infos ==
    [status : {"failure", "cancel", "setup_needed"}, identity_url : {PlainId},
     canonicalID : {None}, sreg_resp : {NoResponse}, ax_resp : {NoResponse},
     oauth : {NoOAuth}]
    \cup
    {Success(PlainId, None, SregAlice, NoResponse, OAuthRequestToken),
     Success(GoogleId, Str(CanonicalId), NoResponse, AxAlice, NoOAuth),
     Success(GoogleId, Str(<<>>), NoResponse, AxAlice, OAuthRequestToken),
     Success(GoogleId, None, NoResponse, NoResponse, NoOAuth)}

\* the responses met by a responder that overrides _get_access_token: the
\* OAuth extension is absent, comes without a request_token, or carries one
OAuthInfos ==
    {[NoInfo EXCEPT !.status = "failure", !.identity_url = PlainId]}
    \cup
    {Success(PlainId, None, SregAlice, NoResponse, oauth) :
        oauth \in {NoOAuth, OAuthScopeOnly, OAuthRequestToken}}

\* the request tokens a response may carry
RequestTokens == {OAuthRequestToken["request_token"]}

\* what an overriding _get_access_token returns: nothing, an empty value, or
\* the access token obtained for the request token
HookOutcomes == {None, Str(<<>>), Str(<<"access_token">>)}

\* the _get_access_token of OpenIDResponder, as a map of the request token
DefaultHook == [request_token \in RequestTokens |-> get_access_token(request_token)]

\* the _get_access_token methods of the responders that override it
OverridingHooks == [RequestTokens -> HookOutcomes]

\* sessions taken by the requests started so far
UsedSessions == {req[q].sess : q \in {q \in Reqs : req[q].pc # "idle"}}

\* sessions are interchangeable: a request comes from a session already
\* seen, or from the next unseen one
StartSessions == {s \in Sessions : \A t \in 1..(s - 1) : t \in UsedSessions}

\* requests are started in the order of their numbers
CanStart(r) == req[r].pc = "idle" /\ (IF r = 1 THEN TRUE ELSE req[r - 1].pc # "idle")

InFlight(r) == req[r].pc \notin {"idle", "done"}

\* ------------------------------------------------------------------------
\* OpenIDResponder.login
\* ------------------------------------------------------------------------

\* login with the session written before the request is validated
LoginBeginAt_SaveFirst(r, s, post, begin) ==
    LET end_point == post.end_point
        openid_identifier == post.openid_identifier
        base == [req[r] EXCEPT !.op = "login", !.sess = s, !.end_point = end_point]
        openid_url == lookup_identifier(openid_identifier)
    IN  IF end_point.none
        THEN /\ raise(r, base, "KeyError")
             /\ UNCHANGED <<session, storage>>
        ELSE IF (~Truthy(openid_identifier)) \/ ~ReMatch(endpoint_regex, end_point.s)
        THEN /\ error_redirect(r, base, ValidationErrorCode, "validation", end_point)
             /\ session' = [session EXCEPT ![s] = end_point]
        ELSE IF begin \in {"DiscoveryFailure", "None"}
        THEN /\ error_redirect(r, base, DiscoveryErrorCode, "discovery", end_point)
             /\ session' = [session EXCEPT ![s] = end_point]
        ELSE /\ req' = [req EXCEPT ![r] = [base EXCEPT !.pc = "save",
                            !.openid_session = <<openid_url.s, r>>]]
             /\ UNCHANGED <<session, storage>>

\* login that accepts any end_point: the allow-pattern is not consulted
LoginBeginAt_NoPatternCheck(r, s, post, begin) ==
    LET end_point == post.end_point
        openid_identifier == post.openid_identifier
        base == [req[r] EXCEPT !.op = "login", !.sess = s, !.end_point = end_point]
        openid_url == lookup_identifier(openid_identifier)
    IN  IF end_point.none
        THEN /\ raise(r, base, "KeyError")
             /\ UNCHANGED <<session, storage>>
        ELSE IF ~Truthy(openid_identifier)
        THEN /\ error_redirect(r, base, ValidationErrorCode, "validation", end_point)
             /\ UNCHANGED session
        ELSE IF begin \in {"DiscoveryFailure", "None"}
        THEN /\ error_redirect(r, base, DiscoveryErrorCode, "discovery", end_point)
             /\ UNCHANGED session
        ELSE /\ req' = [req EXCEPT ![r] = [base EXCEPT !.pc = "save",
                            !.openid_session = <<openid_url.s, r>>]]
             /\ UNCHANGED <<session, storage>>

\* lines 207-230: read the form, validate, discover.  Nothing shared is
\* written unless the handler returns here through _error_redirect.  The
\* protocol state that begin() leaves in openid_session is the attempt's
\* own: it holds what was discovered for openid_url, and it is told apart
\* from the state of any other attempt by the request that created it.
LoginBeginAt(r, s, post, begin) ==
    LET end_point == post.end_point
        openid_identifier == post.openid_identifier
        base == [req[r] EXCEPT !.op = "login", !.sess = s, !.end_point = end_point]
        openid_url == lookup_identifier(openid_identifier)
    IN  IF end_point.none
        THEN /\ raise(r, base, "KeyError")
             /\ UNCHANGED <<session, storage>>
        ELSE IF (~Truthy(openid_identifier)) \/ ~ReMatch(endpoint_regex, end_point.s)
        THEN /\ error_redirect(r, base, ValidationErrorCode, "validation", end_point)
             /\ UNCHANGED session
        ELSE IF begin \in {"DiscoveryFailure", "None"}
        THEN /\ error_redirect(r, base, DiscoveryErrorCode, "discovery", end_point)
             /\ UNCHANGED session
        ELSE /\ req' = [req EXCEPT ![r] = [base EXCEPT !.pc = "save",
                            !.openid_session = <<openid_url.s, r>>]]
             /\ UNCHANGED <<session, storage>>

\* a login request arrives
LoginBegin(r) ==
    /\ CanStart(r)
    /\ \E s \in StartSessions, post \in Posts, begin \in DiscoveryOutcomes :
        LoginBeginAt(r, s, post, begin)
    /\ UNCHANGED <<xin, xout>>

\* lines 233-234: req.session['end_point'] = end_point; req.session.save()
LoginSaveSession(r) ==
    /\ req[r].op = "login" /\ req[r].pc = "save"
    /\ session' = [session EXCEPT ![req[r].sess] = req[r].end_point]
    /\ req' = [req EXCEPT ![r].pc = "store"]
    /\ UNCHANGED <<storage, xin, xout>>

\* login whose self-submitting-form branch stores the attempt for good
LoginStore_FormNoExpiry(r) ==
    /\ req[r].op = "login" /\ req[r].pc = "store"
    /\ \E shouldSendRedirect \in BOOLEAN :
        IF shouldSendRedirect
        THEN /\ storage' = Store(storage, SidKey(req[r].sess), req[r].openid_session,
                                 Seconds(LoginRedirectExpires))
             /\ req' = [req EXCEPT ![r].pc = "done",
                          ![r].resp = Resp("provider_redirect", "-", -1, None, 0)]
        ELSE /\ storage' = Store(storage, SidKey(req[r].sess), req[r].openid_session, Never)
             /\ req' = [req EXCEPT ![r].pc = "done",
                          ![r].resp = Resp("provider_form", "-", -1, None, 0)]
    /\ UNCHANGED <<session, xin, xout>>

\* lines 238-248: store the attempt under the session id, answer with the
\* redirect or with the self-submitting form, as shouldSendRedirect() says
LoginStore(r) ==
    /\ req[r].op = "login" /\ req[r].pc = "store"
    /\ \E shouldSendRedirect \in BOOLEAN :
        IF shouldSendRedirect
        THEN /\ storage' = Store(storage, SidKey(req[r].sess), req[r].openid_session,
                                 Seconds(LoginRedirectExpires))
             /\ req' = [req EXCEPT ![r].pc = "done",
                          ![r].resp = Resp("provider_redirect", "-", -1, None, 0)]
        ELSE /\ storage' = Store(storage, SidKey(req[r].sess), req[r].openid_session,
                                 Seconds(LoginFormExpires))
             /\ req' = [req EXCEPT ![r].pc = "done",
                          ![r].resp = Resp("provider_form", "-", -1, None, 0)]
    /\ UNCHANGED <<session, xin, xout>>

\* ------------------------------------------------------------------------
\* OpenIDResponder.process
\* ------------------------------------------------------------------------

\* line 256: end_point = req.session['end_point']
ProcessBegin(r) ==
    /\ CanStart(r)
    /\ \E s \in StartSessions :
        LET base == [req[r] EXCEPT !.op = "process", !.sess = s] IN
        IF session[s].none
        THEN raise(r, base, "KeyError")
        ELSE req' = [req EXCEPT ![r] = [base EXCEPT !.pc = "retrieve",
                         !.end_point = session[s]]]
    /\ UNCHANGED <<session, storage, xin, xout>>

\* process that takes the claimed identity URL whatever the endpoint says
OpenIDIdentity_Claimed(info) == info.identity_url

\* lines 269-273: the canonical id of the endpoint when it has one, else
\* the claimed identity URL
OpenIDIdentity(info) ==
    IF Truthy(info.canonicalID) THEN info.canonicalID.s ELSE info.identity_url

\* lines 281-283: whether the hook is called, 'oauth and 'request_token' in
\* oauth'
HookCalled(info) == DOMAIN info.oauth # {} /\ "request_token" \in DOMAIN info.oauth

\* line 283: the local access_token, unbound when the hook is not called
AccessToken(info, hook) ==
    IF HookCalled(info) THEN <<hook[info.oauth["request_token"]]>> ELSE <<>>

\* the envelope gets 'credentials' whenever the hook was called, whatever it
\* returned
ResultDataWith_AnyOutcome(info, hook) ==
    LET openid_identity == OpenIDIdentity(info)
        user_data == extract_openid_data(openid_identity, info.sreg_resp, info.ax_resp)
        access_token == AccessToken(info, hook)
    IN  IF access_token # <<>>
        THEN [status |-> "ok", profile |-> user_data.ud, credentials |-> access_token[1]]
        ELSE [status |-> "ok", profile |-> user_data.ud]

\* lines 269-285: the envelope of a successful handshake, for the
\* _get_access_token of the responder
ResultDataWith(info, hook) ==
    LET openid_identity == OpenIDIdentity(info)
        user_data == extract_openid_data(openid_identity, info.sreg_resp, info.ax_resp)
        access_token == AccessToken(info, hook)
    IN  IF access_token # <<>> /\ Truthy(access_token[1])
        THEN [status |-> "ok", profile |-> user_data.ud, credentials |-> access_token[1]]
        ELSE [status |-> "ok", profile |-> user_data.ud]

\* the envelope built by OpenIDResponder itself
ResultData(info) == ResultDataWith(info, DefaultHook)

\* whether extract_openid_data raises on the response of a success
ResultRaises(info) ==
    LET openid_identity == OpenIDIdentity(info)
    IN  ExtractRaises(openid_identity, info.sreg_resp, info.ax_resp)

\* lines 258-285: retrieve the attempt, complete the handshake, build the
\* envelope; infos is what complete() may return and hook the
\* _get_access_token of the responder
ProcessRetrieveWith(r, infos, hook) ==
    /\ req[r].op = "process" /\ req[r].pc = "retrieve"
    /\ LET openid_session == Retrieve(storage, SidKey(req[r].sess))
           found == [req[r] EXCEPT !.openid_session = openid_session]
       IN  IF openid_session = <<>>
           THEN /\ error_redirect(r, found, NoAttemptErrorCode, "no_attempt", req[r].end_point)
                /\ UNCHANGED session
           ELSE \E info \in infos :
                LET base == [found EXCEPT !.info = info] IN
                IF info.status \in {"failure", "cancel"}
                THEN /\ error_redirect(r, found, HandshakeErrorCode, "handshake", req[r].end_point)
                     /\ UNCHANGED session
                ELSE IF info.status = "success"
                THEN IF ResultRaises(info)
                     THEN /\ raise(r, base, "TypeError")
                          /\ UNCHANGED <<session, storage>>
                     ELSE /\ req' = [req EXCEPT ![r] = [base EXCEPT !.pc = "delete",
                                         !.access_token = AccessToken(info, hook),
                                         !.result_data = <<ResultDataWith(info, hook)>>]]
                          /\ UNCHANGED <<session, storage>>
                ELSE /\ error_redirect(r, found, UnrecognizedErrorCode, "unrecognized", req[r].end_point)
                     /\ UNCHANGED session
    /\ UNCHANGED <<xin, xout>>

\* process of OpenIDResponder: the default hook
ProcessRetrieve(r) == ProcessRetrieveWith(r, Infos, DefaultHook)

\* process of a responder that overrides _get_access_token
ProcessRetrieveOverride(r) ==
    \E hook \in OverridingHooks : ProcessRetrieveWith(r, OAuthInfos, hook)

\* process that leaves the consumed attempt record in storage
ProcessDelete_Keep(r) ==
    /\ req[r].op = "process" /\ req[r].pc = "delete"
    /\ req' = [req EXCEPT ![r].pc = "token"]
    /\ UNCHANGED <<session, storage, xin, xout>>

\* line 288: self.storage.delete(req.session.id)
ProcessDelete(r) ==
    /\ req[r].op = "process" /\ req[r].pc = "delete"
    /\ storage' = Delete(storage, SidKey(req[r].sess))
    /\ req' = [req EXCEPT ![r].pc = "token"]
    /\ UNCHANGED <<session, xin, xout>>

\* lines 291-292: generate the token, store the envelope under it
ProcessStoreToken(r) ==
    /\ req[r].op = "process" /\ req[r].pc = "token"
    /\ LET token == generate_token(r) IN
        /\ storage' = Store(storage, TokKey(token), req[r].result_data[1],
                            Seconds(ResultExpires))
        /\ req' = [req EXCEPT ![r].pc = "respond", ![r].token = token]
    /\ UNCHANGED <<session, xin, xout>>

\* lines 293-294: the form towards req.session['end_point']
ProcessRespond(r) ==
    /\ req[r].op = "process" /\ req[r].pc = "respond"
    /\ req' = [req EXCEPT ![r].pc = "done",
                  ![r].resp = Resp("token_form", "-", -1, session[req[r].sess], req[r].token)]
    /\ UNCHANGED <<session, storage, xin, xout>>

\* ------------------------------------------------------------------------
\* Specifications
\* ------------------------------------------------------------------------

XIdle == [called |-> FALSE, raised |-> FALSE, ud |-> <<>>]

MachineInit ==
    /\ session = [s \in Sessions |-> None]
    /\ storage = [k \in {} |-> <<>>]
    /\ req = [r \in Reqs |-> IdleReq]

Init ==
    /\ MachineInit
    /\ xin = [identifier |-> PlainId, sreg_resp |-> NoResponse, ax_resp |-> NoResponse]
    /\ xout = XIdle

Step(r) ==
    \/ LoginBegin(r)
    \/ LoginSaveSession(r)
    \/ LoginStore(r)
    \/ ProcessBegin(r)
    \/ ProcessRetrieve(r)
    \/ ProcessDelete(r)
    \/ ProcessStoreToken(r)
    \/ ProcessRespond(r)

\* requests interleave at every access to the session and the storage
Next == \E r \in Reqs : Step(r)

Spec == Init /\ [][Next]_vars

\* one request at a time: a handler runs to its response before the next
\* request is taken
NextSeq == \E r \in Reqs : (\A q \in Reqs \ {r} : ~InFlight(q)) /\ Step(r)

SpecSeq == Init /\ [][NextSeq]_vars

\* the keys storage can hold
StorageKeys == {SidKey(s) : s \in Sessions} \cup {TokKey(generate_token(r)) : r \in Reqs}

\* a store that enforces expiry: a record stored with a number of seconds
\* is dropped once that window has elapsed
Expire(k) ==
    /\ k \in DOMAIN storage
    /\ ~storage[k].expires.never
    /\ storage' = Delete(storage, k)
    /\ UNCHANGED <<session, req, xin, xout>>

\* the requests of one browser session, one at a time, over a store that
\* enforces expiry
NextExpiry ==
    \/ NextSeq /\ \A r \in Reqs : req'[r].sess \in {0, 1}
    \/ \E k \in StorageKeys : Expire(k)

\* every window elapses
SpecExpiry == Init /\ [][NextExpiry]_vars /\ \A k \in StorageKeys : WF_vars(Expire(k))

\* the steps of a responder that overrides _get_access_token
StepOverride(r) ==
    \/ LoginBegin(r)
    \/ LoginSaveSession(r)
    \/ LoginStore(r)
    \/ ProcessBegin(r)
    \/ ProcessRetrieveOverride(r)
    \/ ProcessDelete(r)
    \/ ProcessStoreToken(r)
    \/ ProcessRespond(r)

\* the requests of one browser session, one at a time, served by a
\* responder that overrides _get_access_token
NextOverride ==
    \E r \in Reqs :
        /\ \A q \in Reqs \ {r} : ~InFlight(q)
        /\ StepOverride(r)
        /\ req'[r].sess \in {0, 1}

SpecOverride == Init /\ [][NextOverride]_vars

\* the normalizer alone: any identifier and any pair of responses
ExtractInit ==
    /\ MachineInit
    /\ xin \in [identifier : Identifiers, sreg_resp : SregResponses, ax_resp : AxResponses]
    /\ xout = XIdle

ExtractCall ==
    /\ ~xout.called
    /\ LET res == extract_openid_data(xin.identifier, xin.sreg_resp, xin.ax_resp) IN
        xout' = [called |-> TRUE, raised |-> res.raised, ud |-> res.ud]
    /\ UNCHANGED <<machineVars, xin>>

NextExtract == ExtractCall

SpecExtract == ExtractInit /\ [][NextExtract]_vars

\* ------------------------------------------------------------------------
\* Properties of the normalizer (SpecExtract)
\* ------------------------------------------------------------------------

Returned == xout.called /\ ~xout.raised

EmailUri == ax_attributes["email"]

\* C7: every field of a returned profile is non-empty: no top-level key and
\* no key of the structured name holds None or an empty value.
C7_EveryFieldNonEmpty ==
    Returned =>
        \A k \in DOMAIN xout.ud :
            /\ FieldTruthy(k, xout.ud[k])
            /\ k = "name" => \A n \in DOMAIN xout.ud[k] : Truthy(xout.ud[k][n])

\* C8: extract_openid_data raises no error, whatever the identifier and the
\* two attribute responses are.
C8_NeverRaises == xout.called => ~xout.raised

\* C10: in a returned profile providerName is 'Google' for an identifier
\* containing 'google.com', otherwise 'Yahoo' for one containing
\* 'yahoo.com', otherwise 'OpenID'; verifiedEmail appears only for Google
\* and Yahoo and is then the attribute-exchange email value, so an email
\* given only by simple registration never yields it.
C10_ProviderAndVerifiedEmail ==
    Returned =>
        LET id == xin.identifier
            ud == xout.ud
        IN  /\ "providerName" \in DOMAIN ud
            /\ Contains("google.com", id) => ud["providerName"] = Str(<<"Google">>)
            /\ (~Contains("google.com", id) /\ Contains("yahoo.com", id))
                    => ud["providerName"] = Str(<<"Yahoo">>)
            /\ (~Contains("google.com", id) /\ ~Contains("yahoo.com", id))
                    => ud["providerName"] = Str(<<"OpenID">>)
            /\ "verifiedEmail" \in DOMAIN ud =>
                    /\ ud["providerName"] \in {Str(<<"Google">>), Str(<<"Yahoo">>)}
                    /\ EmailUri \in DOMAIN xin.ax_resp
                    /\ ud["verifiedEmail"] = xin.ax_resp[EmailUri]
            /\ ud["providerName"] = Str(<<"OpenID">>) => "verifiedEmail" \notin DOMAIN ud

\* a Google profile was returned for an email known from simple
\* registration only, and it has no verifiedEmail
C10_Witness ==
    /\ Returned
    /\ Contains("google.com", xin.identifier)
    /\ "email" \in DOMAIN xin.sreg_resp
    /\ EmailUri \notin DOMAIN xin.ax_resp
    /\ "preferredUsername" \in DOMAIN xout.ud
    /\ xout.ud["preferredUsername"] = alice
    /\ "verifiedEmail" \notin DOMAIN xout.ud

\* the registration name of a logical field, as the claim's "renamed" reads
RegistrationName(key) ==
    IF key = "full_name" THEN "fullname"
    ELSE IF key = "birthday" THEN "dob"
    ELSE IF key = "postal_code" THEN "postcode"
    ELSE key

\* C11: for every logical field, AttribAccess.get returns the attribute-
\* exchange value when that value is non-empty, whatever simple registration
\* holds; the simple-registration value is returned only when the exchange
\* value is absent or empty, the lookup is not exchange-only and the renamed
\* field is a recognized registration field; otherwise the result is None.
C11_ExchangeValueWins ==
    xout.called =>
        \A key \in DOMAIN ax_attributes, ax_only \in BOOLEAN :
            LET got == AttribAccess_get(xin.sreg_resp, xin.ax_resp, key, ax_only)
                uri == ax_attributes[key]
                axv == IF uri \in DOMAIN xin.ax_resp THEN xin.ax_resp[uri] ELSE None
                reg == RegistrationName(key)
                recognized == reg \in sreg_data_fields
                regv == IF reg \in DOMAIN xin.sreg_resp THEN xin.sreg_resp[reg] ELSE None
            IN  /\ Truthy(axv) => got = axv
                /\ (~Truthy(axv) /\ (ax_only \/ ~recognized)) => got = None
                /\ (~Truthy(axv) /\ ~ax_only /\ recognized) => got = regv

\* a Google profile was returned for an email that both sources give, with
\* different values: the preferred username is taken from the exchange one
C11_Witness ==
    /\ Returned
    /\ Contains("google.com", xin.identifier)
    /\ EmailUri \in DOMAIN xin.ax_resp
    /\ xin.ax_resp[EmailUri] = alice_email
    /\ "email" \in DOMAIN xin.sreg_resp
    /\ xin.sreg_resp["email"] = alice
    /\ "preferredUsername" \in DOMAIN xout.ud
    /\ xout.ud["preferredUsername"] = alice
    /\ xout.ud["verifiedEmail"] = alice_email

\* the order of the name parts: prefix, first, middle, last, suffix
PartOrder == <<"name_prefix", "first_name", "middle_name", "last_name", "name_suffix">>

\* the non-empty name parts of the exchange response, in that order
RECURSIVE PresentParts(_, _)
PresentParts(ax_resp, i) ==
    IF i > Len(PartOrder) THEN <<>>
    ELSE LET uri == ax_attributes[PartOrder[i]] IN
         (IF uri \in DOMAIN ax_resp /\ Truthy(ax_resp[uri]) THEN <<ax_resp[uri]>> ELSE <<>>)
         \o PresentParts(ax_resp, i + 1)

\* the values of a list, one space between two neighbours
RECURSIVE SingleSpaced(_)
SingleSpaced(vals) ==
    IF vals = <<>> THEN <<>>
    ELSE IF Len(vals) = 1 THEN vals[1].s
    ELSE vals[1].s \o <<" ">> \o SingleSpaced(Tail(vals))

\* the flat full_name attribute of the call under study
FlatFullName == AttribAccess_get(xin.sreg_resp, xin.ax_resp, "full_name", FALSE)

\* a key of the returned profile, None when the key is absent
Field(k) == IF k \in DOMAIN xout.ud THEN xout.ud[k] ELSE None

\* the returned profile's displayName is v; it has none when v is empty
DisplayNameIs(v) == IF Truthy(v) THEN Field("displayName") = v ELSE "displayName" \notin DOMAIN xout.ud

\* C12 as stated: displayName is the present name parts joined by single
\* spaces in the order prefix, first, middle, last, suffix; with no name
\* part present it is the flat full_name attribute, and with that absent
\* too the preferred username.
C12_DisplayNameJoined ==
    Returned =>
        LET parts == PresentParts(xin.ax_resp, 1) IN
        IF parts # <<>> THEN DisplayNameIs(Str(SingleSpaced(parts)))
        ELSE IF Truthy(FlatFullName) THEN DisplayNameIs(FlatFullName)
        ELSE DisplayNameIs(Field("preferredUsername"))

\* C12 as amended: displayName is the present name parts joined by single
\* spaces in the order prefix, first, middle, last, suffix, with leading
\* and trailing whitespace removed; when that is empty (no name part, or
\* whitespace only) it is the flat full_name attribute, and with that
\* absent or empty too the preferred username.
C12_DisplayNameJoinedStripped ==
    Returned =>
        LET parts == PresentParts(xin.ax_resp, 1)
            joined == Str(Strip(SingleSpaced(parts)))
        IN  IF Truthy(joined) THEN DisplayNameIs(joined)
            ELSE IF Truthy(FlatFullName) THEN DisplayNameIs(FlatFullName)
            ELSE DisplayNameIs(Field("preferredUsername"))

\* a profile was returned for a whitespace-only prefix and a last name: its
\* displayName is the last name alone
C12_Witness ==
    /\ Returned
    /\ ax_attributes["name_prefix"] \in DOMAIN xin.ax_resp
    /\ xin.ax_resp[ax_attributes["name_prefix"]] = Str(<<" ">>)
    /\ ax_attributes["last_name"] \in DOMAIN xin.ax_resp
    /\ xin.ax_resp[ax_attributes["last_name"]] = Str(<<"smith">>)
    /\ Field("displayName") = Str(<<"smith">>)

\* ------------------------------------------------------------------------
\* Properties of the responder
\* ------------------------------------------------------------------------

AttemptKeys(st) == {k \in DOMAIN st : k[1] = "sid"}

HasAttempt(s) == SidKey(s) \in DOMAIN storage

Done(r, op) == req[r].op = op /\ req[r].pc = "done"

\* request r has just returned
Returns(r) == req[r].pc # "done" /\ req'[r].pc = "done"

\* process r found an attempt record and completed the handshake
FoundAttempt(r) == req[r].op = "process" /\ req[r].openid_session # <<>>

\* no request of r's session was started after r
LastOfSession(r) == \A q \in Reqs : q > r => req[q].sess # req[r].sess

\* C1: once a process call that found an attempt record has returned its
\* response, whatever the outcome of the handshake (success, failure or
\* cancel, unrecognized status), the attempt record is absent from storage
\* as long as no later request of the session has come in (so a second
\* process call finds none and mints no token).
C1_AttemptConsumed ==
    \A r \in Reqs :
        (/\ Done(r, "process") /\ FoundAttempt(r) /\ LastOfSession(r)
         /\ req[r].resp.kind \in {"token_form", "error_redirect"})
            => ~HasAttempt(req[r].sess)

\* logins of session s that stored an attempt record
StoredAttempts(s) ==
    {r \in Reqs : Done(r, "login") /\ req[r].sess = s
                  /\ req[r].resp.kind \in {"provider_redirect", "provider_form"}}

\* process calls of session s that stored an 'ok' envelope under a token
MintedTokens(s) ==
    {r \in Reqs : req[r].op = "process" /\ req[r].sess = s /\ req[r].token # 0}

\* C2: under any interleaving of the process calls of a session, at most
\* one result token record is stored per attempt record that a login stored.
C2_AtMostOneTokenPerAttempt ==
    \A s \in Sessions : Cardinality(MintedTokens(s)) <= Cardinality(StoredAttempts(s))

\* C3: no invocation of login or process ends in an unhandled exception.
C3_NoUnhandledException == \A r \in Reqs : req[r].resp.kind # "exception"

\* the step is a login that returns an error redirect
LoginErrorReturn(r) ==
    /\ Returns(r)
    /\ req'[r].op = "login"
    /\ req'[r].resp.kind = "error_redirect"

\* C4 as stated: a login that returns an error redirect leaves storage and
\* the session exactly as they were before the call.
C4_LoginErrorLeavesStorage ==
    [][\A r \in Reqs : LoginErrorReturn(r) => (storage' = storage /\ session' = session)]_vars

\* C4 as amended: a login that returns an error redirect creates no attempt
\* record and leaves the session unchanged; the attempt records are exactly
\* as before the call, and the only change to storage is the failure
\* envelope that the error redirect stores under a fresh token.
C4_LoginErrorNoAttempt ==
    [][\A r \in Reqs : LoginErrorReturn(r) =>
            /\ session' = session
            /\ AttemptKeys(storage') = AttemptKeys(storage)
            /\ \A k \in DOMAIN storage : k \in DOMAIN storage' /\ storage'[k] = storage[k]
            /\ DOMAIN storage' \ DOMAIN storage = {TokKey(req'[r].resp.token)}
            /\ req'[r].resp.cause \in {"validation", "discovery"}
      ]_vars

\* a login failed in discovery in a session that holds an end_point and a
\* pending attempt record
C4_Witness ==
    \E r \in Reqs :
        /\ Done(r, "login")
        /\ req[r].resp.kind = "error_redirect"
        /\ req[r].resp.cause = "discovery"
        /\ HasAttempt(req[r].sess)
        /\ ~session[req[r].sess].none
        /\ session[req[r].sess] # req[r].end_point

ErrorOf(r, cause) == req[r].resp.kind = "error_redirect" /\ req[r].resp.cause = cause

ThreeCategories == {"validation", "discovery", "handshake"}

\* C5: the codes of the error redirects issued for a callback-validation
\* failure, a discovery failure and a handshake failure/cancellation are
\* pairwise distinct.
C5_DistinctErrorCodes ==
    \A r1 \in Reqs :
        (req[r1].resp.kind = "error_redirect" /\ req[r1].resp.cause \in ThreeCategories) =>
            \A r2 \in Reqs :
                (/\ req[r2].resp.kind = "error_redirect"
                 /\ req[r2].resp.cause \in ThreeCategories
                 /\ req[r2].resp.cause # req[r1].resp.cause)
                    => req[r1].resp.code # req[r2].resp.code

\* a handshake failure and a discovery failure have both been answered
C5_Witness ==
    \E r1, r2 \in Reqs : ErrorOf(r1, "handshake") /\ ErrorOf(r2, "discovery")

\* every record in storage was stored with expires=300
EveryRecordExpires ==
    \A k \in DOMAIN storage : storage[k].expires = [never |-> FALSE, secs |-> 300]

\* a process call that found no attempt record returned the error redirect
\* and stored no 'ok' envelope
NoAttemptNoToken ==
    \A r \in Reqs :
        (Done(r, "process") /\ ~FoundAttempt(r) /\ req[r].resp.kind # "exception")
            => (ErrorOf(r, "no_attempt") /\ req[r].token = 0)

\* C13: every record written to storage carries the finite expiry 300, in
\* both branches of login and in process; over a store that enforces
\* expiry an attempt record is eventually absent, and a process call that
\* comes after the record has gone finds no attempt and mints no token.
C13_AttemptsExpire ==
    /\ []EveryRecordExpires
    /\ \A s \in Sessions : HasAttempt(s) ~> ~HasAttempt(s)
    /\ []NoAttemptNoToken

\* a login answered with the self-submitting form, its attempt record
\* expired, and the process call that followed found none
C13_Witness ==
    \E l, r \in Reqs :
        /\ l < r
        /\ Done(l, "login") /\ req[l].resp.kind = "provider_form"
        /\ Done(r, "process") /\ req[r].sess = req[l].sess
        /\ ErrorOf(r, "no_attempt")
        /\ \A q \in Reqs : (q < r /\ req[q].sess = req[l].sess) => req[q].op = "login"

\* key k of storage is added, removed or rewritten by the step
Touched(k) ==
    IF k \in DOMAIN storage /\ k \in DOMAIN storage'
    THEN storage'[k] # storage[k]
    ELSE k \in DOMAIN storage \/ k \in DOMAIN storage'

\* C14: a step of a login or process invocation of session A writes only
\* A's end_point, the record keyed by A's session id and a record keyed by
\* the token generated in that invocation, which was not in storage before;
\* the end_point and the attempt record of every other session B are left
\* unchanged, under any interleaving.
C14_SessionIsolation ==
    [][\A r \in Reqs : req'[r] # req[r] =>
            LET A == req'[r].sess IN
            /\ \A B \in Sessions \ {A} : session'[B] = session[B] /\ ~Touched(SidKey(B))
            /\ \A k \in DOMAIN storage \cup DOMAIN storage' :
                    Touched(k) =>
                        \/ k = SidKey(A)
                        \/ k = TokKey(generate_token(r)) /\ k \notin DOMAIN storage
      ]_vars

\* session 1 logged in and completed its handshake with a token while
\* session 2 holds its own end_point and a pending attempt record
C14_Witness ==
    /\ session[1] = AppCb /\ session[2] = AppCb2
    /\ HasAttempt(2) /\ ~HasAttempt(1)
    /\ \E r \in Reqs :
        /\ Done(r, "process") /\ req[r].sess = 1
        /\ req[r].resp.kind = "token_form"
        /\ TokKey(req[r].resp.token) \in DOMAIN storage

\* the step is a login storing its attempt record
StoresAttempt(r) == req[r].op = "login" /\ req[r].pc = "store" /\ req'[r].pc = "done"

\* C15: between the login that stores the attempt record of a session and
\* the process that consumes it no other login writes that key: a login
\* never stores over a pending attempt record.
C15_NoOverwrite ==
    [][\A r \in Reqs : StoresAttempt(r) => ~HasAttempt(req[r].sess)]_vars

\* C16: for a Google or Yahoo identity, the result stored for the caller
\* after a successful authentication has the keys 'profile' and
\* 'credentials', and its profile has the keys 'displayName' and 'accounts'.
C16_GoogleYahooResultKeys ==
    \A r \in Reqs :
        (/\ Done(r, "process") /\ req[r].resp.kind = "token_form"
         /\ providerName(req[r].info.identity_url) \in {"Google", "Yahoo"}
         /\ TokKey(req[r].resp.token) \in DOMAIN storage)
            => LET result == storage[TokKey(req[r].resp.token)].value IN
               /\ {"profile", "credentials"} \subseteq DOMAIN result
               /\ {"displayName", "accounts"} \subseteq DOMAIN result.profile

\* a process call that found no attempt record returned the generic failure
\* redirect to the end point recorded in the session
NoAttemptRedirects ==
    \A r \in Reqs :
        (Done(r, "process") /\ ~FoundAttempt(r))
            => /\ ErrorOf(r, "no_attempt")
               /\ req[r].resp.code = NoAttemptErrorCode
               /\ ~req[r].resp.target.none
               /\ req[r].resp.target = req[r].end_point
               /\ req[r].token = 0

\* every session with a result token record has a login that stored an
\* attempt record
TokensFollowAttempts ==
    \A s \in Sessions : MintedTokens(s) # {} => StoredAttempts(s) # {}

\* C17: a process call that finds no attempt record for its session (no
\* login yet, or the record gone) returns the generic failure redirect to
\* the end point recorded in the session, stores no result token record
\* and leaves storage unchanged; hence every result token record follows a
\* login of the same session that stored an attempt record.
C17_TokenOnlyForAttempt ==
    /\ []NoAttemptRedirects
    /\ [][\A r \in Reqs :
            (Returns(r) /\ req'[r].op = "process" /\ req'[r].openid_session = <<>>)
                => storage' = storage]_vars
    /\ []TokensFollowAttempts

\* the step is a process call storing its result envelope
StoresToken(r) == req[r].op = "process" /\ req[r].pc = "token" /\ req'[r].pc = "respond"

\* the step stores one 'ok' envelope, holding the normalized profile of the
\* identity, under one token that was not in storage before
OneFreshEnvelope(r) ==
    LET info == req[r].info
        identity == IF Truthy(info.canonicalID) THEN info.canonicalID.s ELSE info.identity_url
        k == TokKey(req'[r].token)
    IN  /\ k \notin DOMAIN storage
        /\ DOMAIN storage' = DOMAIN storage \cup {k}
        /\ \A x \in DOMAIN storage : storage'[x] = storage[x]
        /\ storage'[k].value.status = "ok"
        /\ storage'[k].value.profile =
                extract_openid_data(identity, info.sreg_resp, info.ax_resp).ud

\* the step is the answer of a process call, and the form carries the token
\* of the call to the end point held in the session
FormToSessionEndPoint(r) ==
    (req[r].op = "process" /\ req[r].pc = "respond" /\ req'[r].pc = "done")
        => /\ req'[r].resp.kind = "token_form"
           /\ req'[r].resp.token = req[r].token
           /\ TokKey(req[r].token) \in DOMAIN storage
           /\ req'[r].resp.target = session[req[r].sess]

\* C18 as stated: on handshake success process deletes the attempt record
\* first, then stores one 'ok' envelope with the normalized profile under
\* one fresh token, and the form carrying that token targets the end point
\* held in the session; when the token record becomes visible the session
\* has no attempt record.
C18_AttemptAbsentAtToken ==
    [][\A r \in Reqs :
            /\ StoresToken(r) => (OneFreshEnvelope(r) /\ ~HasAttempt(req[r].sess))
            /\ FormToSessionEndPoint(r)
      ]_vars

\* C18 as amended: process deletes the attempt record it retrieved before
\* it stores the envelope: its delete leaves the session without attempt
\* record, the token is stored only after that delete, and from the delete
\* to the answer only a login of the same session storing a new attempt
\* puts a record under the session id; the envelope and the form are as
\* stated.
C18_DeleteBeforeToken ==
    [][\A r \in Reqs :
            /\ StoresToken(r) => OneFreshEnvelope(r)
            /\ FormToSessionEndPoint(r)
            /\ (req[r].op = "process" /\ req'[r].pc = "token" /\ req[r].pc # "token")
                    => (req[r].pc = "delete" /\ ~HasAttempt(req[r].sess)')
            /\ (/\ req[r].op = "process" /\ req[r].pc \in {"token", "respond"}
                /\ ~HasAttempt(req[r].sess) /\ HasAttempt(req[r].sess)')
                    => \E l \in Reqs : StoresAttempt(l) /\ req[l].sess = req[r].sess
      ]_vars

\* a process call has deleted its attempt record and stored its envelope,
\* and a login of the same session has stored a new attempt meanwhile
C18_Witness ==
    \E r \in Reqs :
        /\ req[r].op = "process" /\ req[r].pc = "respond"
        /\ TokKey(req[r].token) \in DOMAIN storage
        /\ storage[TokKey(req[r].token)].value.status = "ok"
        /\ HasAttempt(req[r].sess)

\* the login whose attempt record process r retrieved
WriterOf(r) == req[r].openid_session[2]

\* C19: the end point to which a process call delivers its token or its
\* error is the end_point submitted by the login that wrote the attempt
\* record the call consumed, under every interleaving of the logins of a
\* session.
C19_CallbackCorrelation ==
    \A r \in Reqs :
        (/\ Done(r, "process") /\ FoundAttempt(r)
         /\ req[r].resp.kind \in {"token_form", "error_redirect"})
            => req[r].resp.target = req[WriterOf(r)].end_point

\* C20: when login returns a provider redirect or a self-submitting form,
\* the session's end_point is the submitted end_point and an attempt record
\* exists under the session id, whichever of the two branches was taken;
\* the record is the protocol state alone and does not hold the callback
\* URL.
C20_LoginEffect ==
    [][\A r \in Reqs : StoresAttempt(r) =>
            LET s == req[r].sess IN
            /\ req'[r].resp.kind \in {"provider_redirect", "provider_form"}
            /\ session'[s] = req[r].end_point
            /\ SidKey(s) \in DOMAIN storage'
            /\ storage'[SidKey(s)].value = req[r].openid_session
            /\ req[r].openid_session[1] # req[r].end_point.s
      ]_vars

\* the end_point matches the configured allow-pattern
Allowed(end_point) == (~end_point.none) /\ ReMatch(endpoint_regex, end_point.s)

\* process r has rendered the form that carries the token of an 'ok' envelope
DeliveredToken(r) == Done(r, "process") /\ req[r].resp.kind = "token_form"

\* C21: in every reachable state the end_point held in a session matches
\* the configured endpoint regex, and so does the end_point that a process
\* call has read from its session; every token-carrying form rendered by
\* process targets an end_point that matches the allow-pattern, so no
\* sequence of login and process calls delivers a token to an end_point
\* that the allow-pattern check of login rejected.
C21_TokenToAllowedEndPoint ==
    /\ \A s \in Sessions : session[s].none \/ Allowed(session[s])
    /\ \A r \in Reqs :
        /\ (req[r].op = "process" /\ req[r].pc # "done") => Allowed(req[r].end_point)
        /\ DeliveredToken(r) => Allowed(req[r].resp.target)

\* a token was delivered in a session in which an earlier login had been
\* turned down for an end_point outside the allow-pattern
C21_Witness ==
    \E r \in Reqs, l \in Reqs :
        /\ l < r
        /\ DeliveredToken(r)
        /\ Done(l, "login") /\ req[l].sess = req[r].sess
        /\ ErrorOf(l, "validation")
        /\ ~Allowed(req[l].end_point)
        /\ req[r].resp.target # req[l].end_point

\* process r has stored an 'ok' envelope under its token
Minted(r) == req[r].op = "process" /\ req[r].token # 0

\* the envelope r stored
EnvelopeOf(r) == storage[TokKey(req[r].token)].value

\* the response r completed carries the OAuth extension with a request_token
CarriesRequestToken(r) ==
    req[r].info.oauth # NoOAuth /\ "request_token" \in DOMAIN req[r].info.oauth

\* the hook was called for r and returned a non-empty value
HookReturnedValue(r) == req[r].access_token # <<>> /\ Truthy(req[r].access_token[1])

\* the hook was not called for r, or returned what the default hook returns
DefaultOutcome(r) ==
    \/ req[r].access_token = <<>>
    \/ req[r].access_token = <<get_access_token(req[r].info.oauth["request_token"])>>

\* C22: the envelope stored by process contains 'credentials' if and only
\* if the successful response carries the OAuth extension with a
\* request_token and _get_access_token returned a non-empty value, which is
\* then the value of 'credentials'; an envelope built with the outcome of
\* the default hook never contains 'credentials'; and whatever the hook
\* returned, the call goes on to mint the token: once a call that invoked
\* the hook has returned, its response is the token-carrying form and the
\* envelope is in storage.
C22_CredentialsInEnvelope ==
    \A r \in Reqs :
        /\ Minted(r) =>
            /\ "credentials" \in DOMAIN EnvelopeOf(r)
                <=> (CarriesRequestToken(r) /\ HookReturnedValue(r))
            /\ "credentials" \in DOMAIN EnvelopeOf(r)
                => EnvelopeOf(r).credentials = req[r].access_token[1]
            /\ DefaultOutcome(r) => "credentials" \notin DOMAIN EnvelopeOf(r)
        /\ (Done(r, "process") /\ req[r].access_token # <<>>) =>
            /\ Minted(r)
            /\ req[r].resp.kind = "token_form"
            /\ req[r].resp.token = req[r].token

\* a response with a request_token was completed by a responder whose hook
\* returned an access token, and the stored envelope holds it
C22_Witness ==
    \E r \in Reqs :
        /\ Done(r, "process")
        /\ Minted(r)
        /\ CarriesRequestToken(r)
        /\ HookReturnedValue(r)
        /\ "credentials" \in DOMAIN EnvelopeOf(r)

\* the identifier the claim expects for the response r completed
ExpectedIdentity(r) ==
    LET info == req[r].info IN
    IF (~info.canonicalID.none) /\ Len(info.canonicalID.s) > 0
    THEN info.canonicalID.s
    ELSE info.identity_url

\* C23: on handshake success the identifier of the stored profile is the
\* canonical id of the endpoint whenever the provider supplies a non-empty
\* one and the claimed identity URL otherwise, and the provider name of the
\* profile is the one inferred from that same identifier.
C23_IdentityResolution ==
    \A r \in Reqs :
        Minted(r) =>
            /\ EnvelopeOf(r).profile.identifier = Str(ExpectedIdentity(r))
            /\ EnvelopeOf(r).profile.providerName = Str(<<providerName(ExpectedIdentity(r))>>)

\* the endpoint of a Google identity URL came with a canonical id: the
\* profile is filed under the canonical id and not as a Google account
C23_Witness ==
    \E r \in Reqs :
        /\ Minted(r)
        /\ Truthy(req[r].info.canonicalID)
        /\ EnvelopeOf(r).profile.identifier = req[r].info.canonicalID
        /\ EnvelopeOf(r).profile.identifier # Str(req[r].info.identity_url)
        /\ EnvelopeOf(r).profile.providerName # Str(<<providerName(req[r].info.identity_url)>>)

\* C6: a process call that found an attempt record and completed the
\* handshake has, when it returns, created exactly one result token record.
C6_OneRecordPerCompletion ==
    \A r \in Reqs :
        (Done(r, "process") /\ FoundAttempt(r))
            => /\ req[r].resp.token # 0
               /\ TokKey(req[r].resp.token) \in DOMAIN storage

\* the scenario of C9: a success for a plain identifier with the simple
\* registration response {email, nickname} and no attribute exchange
IsAliceScenario(info) ==
    /\ info.status = "success"
    /\ providerName(info.identity_url) = "OpenID"
    /\ info.canonicalID = None
    /\ info.sreg_resp = SregAlice
    /\ info.ax_resp = NoResponse

\* C9: in that scenario the stored profile has exactly the keys identifier,
\* providerName = 'OpenID', preferredUsername = 'alice' and displayName =
\* 'alice', one token is minted, and the form carries it to the end point
\* of the login.
C9_AliceProfile ==
    \A r \in Reqs :
        (Done(r, "process") /\ IsAliceScenario(req[r].info)) =>
            /\ req[r].resp.kind = "token_form"
            /\ TokKey(req[r].resp.token) \in DOMAIN storage
            /\ LET profile == storage[TokKey(req[r].resp.token)].value.profile IN
                /\ DOMAIN profile = {"identifier", "providerName", "preferredUsername", "displayName"}
                /\ profile["identifier"] = Str(req[r].info.identity_url)
                /\ profile["providerName"] = Str(<<"OpenID">>)
                /\ profile["preferredUsername"] = alice
                /\ profile["displayName"] = alice
            /\ \E l \in StoredAttempts(req[r].sess) :
                    /\ l < r
                    /\ \A m \in StoredAttempts(req[r].sess) : m < r => m <= l
                    /\ req[r].resp.target = req[l].end_point

====
